---- MODULE Spec2Model ----
(***************************************************************************)
(* Model of browser_use/agent/dom_tree_visualizer.py: the DOMTreeVisualizer *)
(* traversals (print_dom_tree, summarize_dom_tree,                          *)
(* _get_element_type_distribution, _get_interactive_elements,               *)
(* _get_element_text) and the report built by print_dom_after_task.         *)
(*                                                                          *)
(* A DOM is a sequence of node records; a node is named by its position in  *)
(* the sequence and refers to other nodes by position (children_nodes,      *)
(* content_document, shadow_roots).  Python strings that the code trims or  *)
(* slices are sequences of one-character strings.  An Optional value is a   *)
(* sequence of length 0 (None) or 1.                                        *)
(***************************************************************************)
EXTENDS Integers, Sequences, FiniteSets, TLC

\* ------------------------------------------------------------------ bounds
\* Largest number of nodes of the exhaustively enumerated DOMs the analysis
\* routines are applied to.
MaxNodes == 3
\* Largest number of nodes of the exhaustively enumerated DOMs the provider
\* serves to the visualizer.
MaxPageNodes == 2
\* Largest number of children of the wide DOMs (a root with many children).
MaxWide == 22
\* Largest max_depth argument tried.
MaxDepthArg == 2

\* ------------------------------------------------------- program constants
\* print_dom_tree: node_value.strip()[:50]
TextLineLimit == 50
\* print_dom_after_task: interactive_elements[:20] and "- 20"
InteractiveLimit == 20
\* print_dom_after_task: text_content[:100]
TextPreviewLimit == 100
\* print_dom_after_task: display_depth = min(max_depth, 3)
DisplayDepthCap == 3

\* ---------------------------------------------------------------- helpers
None == <<>>
Some(v) == <<v>>
IsNone(o) == o = <<>>
Min(a, b) == IF a <= b THEN a ELSE b
\* max as an assignment of the latest value would have it
Max_Latest(a, b) == b
Max(a, b) == IF a >= b THEN a ELSE b
Take(s, n) == SubSeq(s, 1, Min(n, Len(s)))
Range(s) == { s[k] : k \in 1..Len(s) }

\* parts[lo] \o ... \o parts[hi], taken in two halves
RECURSIVE ConcatFrom(_, _, _)
ConcatFrom(parts, lo, hi) ==
    IF lo > hi THEN <<>>
    ELSE IF lo = hi THEN parts[lo]
    ELSE LET mid == (lo + hi) \div 2
         IN  ConcatFrom(parts, lo, mid) \o ConcatFrom(parts, mid + 1, hi)

\* what a loop that extends a list by parts[1], parts[2], ... builds
Concat(parts) == CHOOSE r \in { ConcatFrom(p, 1, Len(p)) : p \in { parts } } : TRUE

\* str.lower() on the tag names that occur.
Lower(name) ==
    CASE name = "DIV" -> "div"
      [] name = "A" -> "a"
      [] name = "BUTTON" -> "button"
      [] name = "INPUT" -> "input"
      [] OTHER -> name

IsSpace(c) == c \in {" ", "\t", "\n"}

RECURSIVE lstrip(_)
lstrip(s) == IF s # <<>> /\ IsSpace(Head(s)) THEN lstrip(Tail(s)) ELSE s

RECURSIVE rstrip(_)
rstrip(s) ==
    IF s # <<>> /\ IsSpace(s[Len(s)]) THEN rstrip(SubSeq(s, 1, Len(s) - 1)) ELSE s

\* str.strip()
strip(s) == rstrip(lstrip(s))

\* " ".join(parts)
RECURSIVE join(_)
join(parts) ==
    IF parts = <<>> THEN <<>>
    ELSE IF Len(parts) = 1 THEN parts[1]
    ELSE parts[1] \o <<" ">> \o join(Tail(parts))

\* ------------------------------------------------------------- node model
ELEMENT_NODE == "ELEMENT_NODE"
TEXT_NODE == "TEXT_NODE"
DOCUMENT_NODE == "DOCUMENT_NODE"

\* The kinds of node the DOMs are built from: the fields of a node that do
\* not link it to other nodes.  One more kind, "bare", occurs in BareDom
\* only: an <input> all of whose optional fields are absent, its attribute
\* mapping included.
NodeKinds == {"div", "a", "button", "text_x", "text_y", "text_blank", "document"}

Payload(kind) ==
    CASE kind = "div" ->
           [node_type |-> ELEMENT_NODE, node_name |-> "DIV", node_value |-> <<>>,
            attributes |-> <<>>, element_index |-> None,
            is_visible |-> Some(TRUE), is_scrollable |-> Some(FALSE),
            absolute_position |-> None, ax_node |-> None, snapshot_node |-> None]
      [] kind = "a" ->
           [node_type |-> ELEMENT_NODE, node_name |-> "A", node_value |-> <<>>,
            attributes |-> << <<"href", "u">>, <<"name", "n">>, <<"id", "i">> >>,
            element_index |-> Some(1),
            is_visible |-> Some(TRUE), is_scrollable |-> None,
            absolute_position |-> Some([x |-> 1, y |-> 2, width |-> 3, height |-> 4]),
            ax_node |-> Some([role |-> "link", name |-> "",
                              properties |-> << [name |-> "focusable", value |-> Some(TRUE)],
                                                [name |-> "busy", value |-> None] >>]),
            snapshot_node |-> Some([is_clickable |-> TRUE, cursor_style |-> "pointer"])]
      [] kind = "button" ->
           [node_type |-> ELEMENT_NODE, node_name |-> "BUTTON", node_value |-> <<>>,
            attributes |-> << <<"type", "submit">>, <<"style", "s">> >>,
            element_index |-> Some(0),
            is_visible |-> Some(FALSE), is_scrollable |-> None,
            absolute_position |-> None, ax_node |-> None,
            snapshot_node |-> Some([is_clickable |-> FALSE, cursor_style |-> ""])]
      [] kind = "bare" ->
           [node_type |-> ELEMENT_NODE, node_name |-> "INPUT", node_value |-> <<>>,
            attributes |-> <<>>, element_index |-> Some(2),
            is_visible |-> None, is_scrollable |-> None,
            absolute_position |-> None, ax_node |-> None, snapshot_node |-> None]
      [] kind = "text_x" ->
           [node_type |-> TEXT_NODE, node_name |-> "#text", node_value |-> <<" ", "x">>,
            attributes |-> <<>>, element_index |-> None,
            is_visible |-> None, is_scrollable |-> None,
            absolute_position |-> None, ax_node |-> None, snapshot_node |-> None]
      [] kind = "text_y" ->
           [node_type |-> TEXT_NODE, node_name |-> "#text", node_value |-> <<"y", " ">>,
            attributes |-> <<>>, element_index |-> None,
            is_visible |-> None, is_scrollable |-> None,
            absolute_position |-> None, ax_node |-> None, snapshot_node |-> None]
      [] kind = "text_blank" ->
           [node_type |-> TEXT_NODE, node_name |-> "#text", node_value |-> <<" ", "\n">>,
            attributes |-> <<>>, element_index |-> None,
            is_visible |-> None, is_scrollable |-> None,
            absolute_position |-> None, ax_node |-> None, snapshot_node |-> None]
      [] OTHER ->
           [node_type |-> DOCUMENT_NODE, node_name |-> "#document", node_value |-> <<>>,
            attributes |-> <<>>, element_index |-> None,
            is_visible |-> None, is_scrollable |-> None,
            absolute_position |-> None, ax_node |-> None, snapshot_node |-> None]

\* A node of kind `kind` with no links yet.
NewNode(kind) ==
    [kind |-> kind, children_nodes |-> <<>>, content_document |-> None,
     shadow_roots |-> <<>>]

\* Field access: node i of DOM t.
node_type(t, i) == Payload(t[i].kind).node_type
node_name(t, i) == Payload(t[i].kind).node_name
node_value(t, i) == Payload(t[i].kind).node_value
attributes(t, i) == Payload(t[i].kind).attributes
\* node.attributes is None: the mapping of a bare node is absent, not empty
AttributesAbsent(t, i) == t[i].kind = "bare"
element_index(t, i) == Payload(t[i].kind).element_index
is_visible(t, i) == Payload(t[i].kind).is_visible
is_scrollable(t, i) == Payload(t[i].kind).is_scrollable
absolute_position(t, i) == Payload(t[i].kind).absolute_position
ax_node(t, i) == Payload(t[i].kind).ax_node
snapshot_node(t, i) == Payload(t[i].kind).snapshot_node
children_nodes(t, i) == t[i].children_nodes
content_document(t, i) == t[i].content_document
shadow_roots(t, i) == t[i].shadow_roots

EdgeKinds == {"children_nodes", "content_document", "shadow_roots"}

\* the subtrees of a node: its children in order, then its content
\* document, then its shadow roots in order
Subtrees(t, node) ==
    children_nodes(t, node) \o content_document(t, node) \o shadow_roots(t, node)

\* DOM t with a new last node of kind `kind` hung below node p by edge e.
Attach(t, p, e, kind) ==
    LET j == Len(t) + 1
        host == CASE e = "children_nodes" ->
                       [t[p] EXCEPT !.children_nodes = Append(@, j)]
                  [] e = "content_document" ->
                       [t[p] EXCEPT !.content_document = Some(j)]
                  [] OTHER ->
                       [t[p] EXCEPT !.shadow_roots = Append(@, j)]
    IN  Append([t EXCEPT ![p] = host], NewNode(kind))

EdgeRank(e) ==
    CASE e = "children_nodes" -> 1 [] e = "content_document" -> 2 [] OTHER -> 3

\* The host of node j > 1 of DOM t and the edge that leads to j.
HostOf(t, j) ==
    CHOOSE pe \in (1..Len(t)) \X EdgeKinds :
        \E k \in 1..Len(Subtrees(t, pe[1])) :
            /\ Subtrees(t, pe[1])[k] = j
            /\ pe[2] = IF k <= Len(children_nodes(t, pe[1])) THEN "children_nodes"
                       ELSE IF j \in Range(content_document(t, pe[1]))
                            THEN "content_document" ELSE "shadow_roots"

\* What the DOM provider builds: text nodes are leaves, only elements host a
\* content document or shadow roots, an element has at most one content
\* document, and the root of a content document or of a shadow root is a
\* document(-fragment) node or an element.  Nodes are numbered breadth
\* first (by host, then children before content document before shadow
\* roots), so that each DOM is built once.
CanAttach(t, p, e, kind) ==
    /\ Len(t) > 1 =>
         LET last == HostOf(t, Len(t))
         IN  \/ p > last[1]
             \/ p = last[1] /\ EdgeRank(e) >= EdgeRank(last[2])
    /\ node_type(t, p) # TEXT_NODE
    /\ e # "children_nodes" =>
         /\ node_type(t, p) = ELEMENT_NODE
         /\ Payload(kind).node_type # TEXT_NODE
    /\ e = "content_document" => IsNone(content_document(t, p))

RECURSIVE DomsOfSize(_)
DomsOfSize(n) ==
    IF n = 1 THEN { <<NewNode(k)>> : k \in NodeKinds }
    ELSE UNION { { Attach(t, p, e, k) :
                     <<p, e, k>> \in { x \in (1..(n - 1)) \X EdgeKinds \X NodeKinds :
                                         CanAttach(t, x[1], x[2], x[3]) } } :
                 t \in DomsOfSize(n - 1) }

DomsUpTo(size) == UNION { DomsOfSize(n) : n \in 1..size }

\* A root of kind rootKind with m indexed children followed by j children
\* without an index.
RECURSIVE AttachMany(_, _, _)
AttachMany(t, kind, m) ==
    IF m = 0 THEN t
    ELSE IF m = 1 THEN Attach(t, 1, "children_nodes", kind)
    ELSE CHOOSE r \in { AttachMany(u, kind, m - m \div 2) :
                          u \in { AttachMany(t, kind, m \div 2) } } : TRUE

WideDom(rootKind, ik, m, j) == AttachMany(AttachMany(<<NewNode(rootKind)>>, ik, m), "div", j)

WideDoms ==
    { WideDom(rk, ik, m, j) :
        <<rk, ik, m, j>> \in {"div", "document"} \X {"button"} \X (0..MaxWide) \X (0..1) }

\* <div> x <a>y</a> <button/> </div> whose content document holds <a>x</a>
\* and whose shadow root holds <button>y</button>
FramedDom ==
    LET t1 == Attach(<<NewNode("div")>>, 1, "children_nodes", "text_x")
        t2 == Attach(t1, 1, "children_nodes", "a")
        t3 == Attach(t2, 1, "children_nodes", "button")
        t4 == Attach(t3, 1, "content_document", "document")
        t5 == Attach(t4, 1, "shadow_roots", "document")
        t6 == Attach(t5, 3, "children_nodes", "text_y")
        t7 == Attach(t6, 5, "children_nodes", "a")
        t8 == Attach(t7, 6, "children_nodes", "button")
        t9 == Attach(t8, 8, "children_nodes", "text_x")
    IN  Attach(t9, 9, "children_nodes", "text_y")

\* <div><a><div><button> x </button></div></a></div>: a chain five deep
DeepDom ==
    LET t1 == Attach(<<NewNode("div")>>, 1, "children_nodes", "a")
        t2 == Attach(t1, 2, "children_nodes", "div")
        t3 == Attach(t2, 3, "children_nodes", "button")
    IN  Attach(t3, 4, "children_nodes", "text_x")

\* <div><a/><input/><button/></div> whose <input> has no optional field
BareDom ==
    LET t1 == Attach(<<NewNode("div")>>, 1, "children_nodes", "a")
        t2 == Attach(t1, 1, "children_nodes", "bare")
    IN  Attach(t2, 1, "children_nodes", "button")

FixtureDoms == {FramedDom, DeepDom, BareDom}

\* the DOMs the analysis routines are applied to
Doms == DomsUpTo(MaxNodes) \cup WideDoms \cup FixtureDoms

\* the DOMs of the pages the provider serves
PageDoms == DomsUpTo(MaxPageNodes) \cup WideDoms \cup FixtureDoms

\* DOM t with one more edge e from node p to a node it has already
AddEdge(t, p, e, target) ==
    [t EXCEPT ![p] =
        CASE e = "children_nodes" -> [@ EXCEPT !.children_nodes = Append(@, target)]
          [] e = "content_document" -> [@ EXCEPT !.content_document = Some(target)]
          [] OTHER -> [@ EXCEPT !.shadow_roots = Append(@, target)]]

\* Node graphs that are no trees: a DOM with one more edge, which leads
\* back to the node it leaves, up to a node above it, or across to a node
\* that has a host already.
Graphs ==
    UNION { { AddEdge(t, x[1], x[2], x[3]) :
                x \in (1..Len(t)) \X EdgeKinds \X (1..Len(t)) } :
            t \in DomsUpTo(MaxPageNodes) }

\* ------------------------------------------------------------ output lines
\* One line of output.  kind is the fixed text of the line, indent the number
\* of leading spaces, and the other fields are what the code formats into
\* it.  node is the position of the node the line was emitted for (0 when
\* it is not about one node); it is not part of the text.
Line(kind, indent, node) ==
    [kind |-> kind, indent |-> indent, node |-> node, str |-> "", text |-> <<>>,
     attrs |-> <<>>, idx |-> None, pos |-> None, nums |-> <<>>]

\* [kv for kv in attributes.items() if key in allow], in the mapping's order
RECURSIVE FilterAttrs(_, _)
FilterAttrs(items, allow) ==
    IF items = <<>> THEN <<>>
    ELSE IF Head(items)[1] \in allow
         THEN <<Head(items)>> \o FilterAttrs(Tail(items), allow)
         ELSE FilterAttrs(Tail(items), allow)

TreeAttributeKeys == {"id", "class", "role", "type", "name"}
ReportAttributeKeys == {"id", "class", "role", "type", "name", "href", "placeholder", "value"}

BoolStr(b) == IF b THEN "True" ELSE "False"

\* An exception leaving a routine that builds a list of lines stands in the
\* list at the place where it was raised: the lines after it are never
\* appended, and the caller of the routine gets the exception, not the list.
AttributeError == "AttributeError"

Raised(lines) == \E k \in 1..Len(lines) : lines[k].kind = AttributeError

\* the lines appended before the exception was raised
UpToRaise(lines) ==
    IF ~Raised(lines) THEN lines
    ELSE LET first == CHOOSE k \in 1..Len(lines) :
                          /\ lines[k].kind = AttributeError
                          /\ \A j \in 1..(k - 1) : lines[j].kind # AttributeError
         IN  SubSeq(lines, 1, first - 1)

\* ----------------------------------------------- _print_element_details
RECURSIVE ax_property_lines(_, _, _)
ax_property_lines(props, indent, node) ==
    IF props = <<>> THEN <<>>
    ELSE (IF ~IsNone(Head(props).value)
          THEN << [Line("AX property", indent, node) EXCEPT
                     !.str = Head(props).name, !.text = Head(props).value] >>
          ELSE <<>>)
         \o ax_property_lines(Tail(props), indent, node)

_print_element_details(t, node, depth) ==
    LET prefix == depth * 2
        vis == IF ~IsNone(is_visible(t, node))
               THEN << [Line("Visible", prefix, node) EXCEPT
                          !.str = BoolStr(is_visible(t, node)[1])] >>
               ELSE <<>>
        scr == IF ~IsNone(is_scrollable(t, node))
               THEN << [Line("Scrollable", prefix, node) EXCEPT
                          !.str = BoolStr(is_scrollable(t, node)[1])] >>
               ELSE <<>>
        pos == IF ~IsNone(absolute_position(t, node))
               THEN << [Line("Position", prefix, node) EXCEPT
                          !.pos = absolute_position(t, node)] >>
               ELSE <<>>
        ax  == IF ~IsNone(ax_node(t, node))
               THEN LET a == ax_node(t, node)[1]
                    IN  (IF a.role # ""
                         THEN << [Line("AX Role", prefix, node) EXCEPT !.str = a.role] >>
                         ELSE <<>>)
                        \o (IF a.name # ""
                            THEN << [Line("AX Name", prefix, node) EXCEPT !.str = a.name] >>
                            ELSE <<>>)
                        \o ax_property_lines(a.properties, prefix, node)
               ELSE <<>>
        snap == IF ~IsNone(snapshot_node(t, node))
                THEN LET sn == snapshot_node(t, node)[1]
                     IN  (IF sn.is_clickable
                          THEN << [Line("Clickable", prefix, node) EXCEPT
                                     !.str = BoolStr(sn.is_clickable)] >>
                          ELSE <<>>)
                         \o (IF sn.cursor_style # ""
                             THEN << [Line("Cursor", prefix, node) EXCEPT
                                        !.str = sn.cursor_style] >>
                             ELSE <<>>)
                ELSE <<>>
    IN  vis \o scr \o pos \o ax \o snap

\* --------------------------------------------------------- print_dom_tree
\* the depth test as an off-by-one slip would have it
DepthLimitReached_AtLimit(depth, max_depth) == depth >= max_depth

\* the depth test if it cut off one level later
DepthLimitReached_Late(depth, max_depth) == depth > max_depth + 1

\* if depth > max_depth
DepthLimitReached(depth, max_depth) == depth > max_depth

\* the depth print_dom_tree passes on across an edge of each kind
ChildDepth(depth) == depth + 1
ContentDocumentDepth(depth) == depth + 2
ShadowRootDepth(depth) == depth + 2

\* the lines print_dom_tree appends on a node that is not an element
NonElementLines(t, node, depth) ==
    IF node_type(t, node) = TEXT_NODE /\ strip(node_value(t, node)) # <<>>
    THEN << [Line("#TEXT", depth * 2, node) EXCEPT
               !.text = Take(strip(node_value(t, node)), TextLineLimit)] >>
    ELSE <<>>

\* the open tag; node.attributes.items() raises when attributes is None
OpenLine(t, node, depth) ==
    IF AttributesAbsent(t, node)
    THEN Line(AttributeError, depth * 2, node)
    ELSE [Line("open", depth * 2, node) EXCEPT
            !.str = Lower(node_name(t, node)),
            !.attrs = FilterAttrs(attributes(t, node), TreeAttributeKeys),
            !.idx = element_index(t, node)]

CloseLine(t, node, depth) ==
    [Line("close", depth * 2, node) EXCEPT !.str = Lower(node_name(t, node))]

RECURSIVE print_dom_tree(_, _, _, _, _)
RECURSIVE print_children(_, _, _, _, _)
RECURSIVE print_shadow_roots(_, _, _, _, _, _)

\* print_dom_tree if the closing tag were appended before the content
\* document and the shadow roots were entered
print_dom_tree_CloseEarly(t, node, depth, max_depth, include_details) ==
    IF DepthLimitReached(depth, max_depth)
    THEN << Line("max depth reached", depth * 2, node) >>
    ELSE IF node_type(t, node) # ELEMENT_NODE
    THEN NonElementLines(t, node, depth)
    ELSE << OpenLine(t, node, depth) >>
         \o (IF include_details /\ depth <= max_depth - 1
             THEN _print_element_details(t, node, depth + 1)
             ELSE <<>>)
         \o print_children(t, children_nodes(t, node), ChildDepth(depth), max_depth,
                           include_details)
         \o << CloseLine(t, node, depth) >>
         \o (IF ~IsNone(content_document(t, node))
             THEN << Line("[iframe content]:", (depth + 1) * 2, node) >>
                  \o print_dom_tree(t, content_document(t, node)[1],
                                    ContentDocumentDepth(depth), max_depth, include_details)
             ELSE <<>>)
         \o print_shadow_roots(t, node, shadow_roots(t, node), depth, max_depth,
                               include_details)

\* The lines one call print_dom_tree(node, depth, max_depth, include_details)
\* appends to output_list.
print_dom_tree(t, node, depth, max_depth, include_details) ==
    IF DepthLimitReached(depth, max_depth)
    THEN << Line("max depth reached", depth * 2, node) >>
    ELSE IF node_type(t, node) # ELEMENT_NODE
    THEN NonElementLines(t, node, depth)
    ELSE << OpenLine(t, node, depth) >>
         \o (IF include_details /\ depth <= max_depth - 1
             THEN _print_element_details(t, node, depth + 1)
             ELSE <<>>)
         \o print_children(t, children_nodes(t, node), ChildDepth(depth), max_depth,
                           include_details)
         \o (IF ~IsNone(content_document(t, node))
             THEN << Line("[iframe content]:", (depth + 1) * 2, node) >>
                  \o print_dom_tree(t, content_document(t, node)[1],
                                    ContentDocumentDepth(depth), max_depth, include_details)
             ELSE <<>>)
         \o print_shadow_roots(t, node, shadow_roots(t, node), depth, max_depth,
                               include_details)
         \o << CloseLine(t, node, depth) >>

\* for child in node.children_nodes: self.print_dom_tree(child, depth + 1, ...)
print_children(t, kids, depth, max_depth, include_details) ==
    Concat([k \in 1..Len(kids) |->
              print_dom_tree(t, kids[k], depth, max_depth, include_details)])

\* for shadow_root in node.shadow_roots: marker, then print_dom_tree(shadow_root, depth + 2, ...)
print_shadow_roots(t, host, roots, depth, max_depth, include_details) ==
    IF roots = <<>> THEN <<>>
    ELSE << Line("[shadow-root]:", (depth + 1) * 2, host) >>
         \o print_dom_tree(t, Head(roots), ShadowRootDepth(depth), max_depth, include_details)
         \o print_shadow_roots(t, host, Tail(roots), depth, max_depth, include_details)

\* ----------------------------------------------------- summarize_dom_tree
EmptySummary ==
    [total_nodes |-> 0, interactive_elements |-> 0, visible_elements |-> 0,
     form_elements |-> 0, links |-> 0, buttons |-> 0, depth |-> 0]

\* if node.node_type == NodeType.ELEMENT_NODE: the nodes a traversal looks
\* into and descends from
IsElement(t, node) == node_type(t, node) = ELEMENT_NODE

\* if node.element_index is not None
HasElementIndex(t, node) == ~IsNone(element_index(t, node))

\* the counters of one element
CountElement(t, node, s) ==
    LET tag == Lower(node_name(t, node))
    IN  [s EXCEPT
           !.visible_elements = IF is_visible(t, node) = Some(TRUE) THEN @ + 1 ELSE @,
           !.interactive_elements = IF HasElementIndex(t, node) THEN @ + 1 ELSE @,
           !.links = IF tag = "a" THEN @ + 1 ELSE @,
           !.buttons = IF tag = "button" THEN @ + 1 ELSE @,
           !.form_elements = IF tag \in {"input", "select", "textarea"} THEN @ + 1 ELSE @]

RECURSIVE summarize_traverse(_, _, _, _)
RECURSIVE summarize_each(_, _, _, _)

\* traverse(node, depth) of summarize_dom_tree, as a function of the summary
summarize_traverse(t, node, depth, summary) ==
    LET s1 == [summary EXCEPT !.total_nodes = @ + 1, !.depth = Max(@, depth)]
    IN  IF IsElement(t, node)
        THEN LET s2 == CountElement(t, node, s1)
                 s3 == summarize_each(t, children_nodes(t, node), depth + 1, s2)
                 s4 == IF ~IsNone(content_document(t, node))
                       THEN summarize_traverse(t, content_document(t, node)[1], depth + 1, s3)
                       ELSE s3
             IN  summarize_each(t, shadow_roots(t, node), depth + 1, s4)
        ELSE s1

\* the loop over nodes, taken in two halves: the second half goes on from
\* the summary the first half leaves
summarize_each(t, nodes, depth, summary) ==
    IF nodes = <<>> THEN summary
    ELSE IF Len(nodes) = 1 THEN summarize_traverse(t, nodes[1], depth, summary)
    ELSE LET half == Len(nodes) \div 2
         IN  CHOOSE r \in { summarize_each(t, SubSeq(nodes, half + 1, Len(nodes)), depth, s) :
                              s \in { summarize_each(t, SubSeq(nodes, 1, half), depth,
                                                     summary) } } : TRUE

summarize_dom_tree(t, node) == summarize_traverse(t, node, 0, EmptySummary)

\* ----------------------------------------- _get_element_type_distribution
\* element_types[name] = element_types.get(name, 0) + 1 on a dict kept as the
\* sequence of its <<key, value>> items in insertion order
DictIncrement(d, key) ==
    IF \E k \in 1..Len(d) : d[k][1] = key
    THEN [k \in 1..Len(d) |-> IF d[k][1] = key THEN <<key, d[k][2] + 1>> ELSE d[k]]
    ELSE Append(d, <<key, 1>>)

RECURSIVE distribution_traverse(_, _, _)
RECURSIVE distribution_each(_, _, _)

distribution_traverse(t, node, element_types) ==
    IF IsElement(t, node)
    THEN LET d1 == DictIncrement(element_types, Lower(node_name(t, node)))
             d2 == distribution_each(t, children_nodes(t, node), d1)
             d3 == IF ~IsNone(content_document(t, node))
                   THEN distribution_traverse(t, content_document(t, node)[1], d2)
                   ELSE d2
         IN  distribution_each(t, shadow_roots(t, node), d3)
    ELSE element_types

\* the loop over nodes, taken in two halves: the second half goes on from
\* the dict the first half leaves
distribution_each(t, nodes, element_types) ==
    IF nodes = <<>> THEN element_types
    ELSE IF Len(nodes) = 1 THEN distribution_traverse(t, nodes[1], element_types)
    ELSE LET half == Len(nodes) \div 2
         IN  CHOOSE r \in { distribution_each(t, SubSeq(nodes, half + 1, Len(nodes)), d) :
                              d \in { distribution_each(t, SubSeq(nodes, 1, half),
                                                        element_types) } } : TRUE

_get_element_type_distribution(t, node) == distribution_traverse(t, node, <<>>)

\* ---------------------------------------------- _get_interactive_elements
\* the catalog entry if the test of element_index were left out
CatalogEntry_Unconditional(t, node) == << node >>

\* if node.element_index is not None: interactive_elements.append(node)
CatalogEntry(t, node) == IF HasElementIndex(t, node) THEN <<node>> ELSE <<>>

RECURSIVE interactive_traverse(_, _)
RECURSIVE interactive_each(_, _)

interactive_traverse(t, node) ==
    IF IsElement(t, node)
    THEN CatalogEntry(t, node) \o interactive_each(t, Subtrees(t, node))
    ELSE <<>>

interactive_each(t, nodes) ==
    Concat([k \in 1..Len(nodes) |-> interactive_traverse(t, nodes[k])])

_get_interactive_elements(t, node) == interactive_traverse(t, node)

\* ------------------------------------------------------ _get_element_text
\* the descent of extract_text if it followed the edges the other
\* traversals follow
TextDescent_AllEdges(t, node) ==
    IF node_type(t, node) = ELEMENT_NODE THEN Subtrees(t, node) ELSE <<>>

\* the nodes extract_text goes on to from a node
TextDescent(t, node) ==
    IF node_type(t, node) = ELEMENT_NODE THEN children_nodes(t, node) ELSE <<>>

RECURSIVE extract_text(_, _)
RECURSIVE extract_text_each(_, _)

\* the text_parts one call extract_text(node) appends
extract_text(t, node) ==
    IF node_type(t, node) = TEXT_NODE /\ strip(node_value(t, node)) # <<>>
    THEN << strip(node_value(t, node)) >>
    ELSE extract_text_each(t, TextDescent(t, node))

extract_text_each(t, nodes) ==
    Concat([k \in 1..Len(nodes) |-> extract_text(t, nodes[k])])

_get_element_text(t, node) == join(extract_text(t, node))

\* ------------------------------------------------------------------ state
VARIABLES
    dom,              \* the page's DOM as the provider holds it; node 1 is its root
    browser_session,  \* self.browser_session (None or the session)
    dom_service,      \* self.dom_service (None or the DomService)
    stdout,           \* what the last operation print()ed
    log,              \* what the last operation sent to logging.getLogger('Agent')
    ret,              \* the call the caller is looking at: its name, arguments and
                      \* outcome; op is "idle" when the caller holds no result
    calls,            \* the routines the last operation called, in order
    last_summary      \* history: the summary the caller kept from a call of
                      \* summarize_dom_tree (None while it has kept none)

vars == <<dom, browser_session, dom_service, stdout, log, ret, calls, last_summary>>

Session == Some("BrowserSession")

\* What dom_service.get_dom_tree does with one call: returns the root of the
\* DOM, returns no tree, or raises.
ProviderOutcomes == {"tree", "absent", "raise"}

\* fetched is how the provider's call ended when the operation made one, and
\* "" when it made none.
Outcome(op, outcome, value) ==
    [op |-> op, outcome |-> outcome, value |-> value, node |-> 0,
     max_depth |-> 0, include_details |-> FALSE, fetched |-> ""]

\* ------------------------------------------------------------- initialize
\* initialize(bs) on a visualizer whose fields are session and service
initialize(session, service, bs) ==
    LET s == IF ~IsNone(bs) THEN bs ELSE session
    IN  IF IsNone(s)
        THEN [outcome |-> "raise", exc |-> "ValueError", browser_session |-> s,
              dom_service |-> service]
        ELSE [outcome |-> "return", exc |-> "", browser_session |-> s,
              dom_service |-> Some("DomService")]

\* ---------------------------------------------------- get_current_dom_tree
\* what get_current_dom_tree returns when the provider's call ended as p:
\* the except clause turns a raise into None
FetchedValue(p) == IF p = "tree" THEN Some(1) ELSE None

\* what get_current_dom_tree prints when the provider's call ended as p
FetchedOutput(p) ==
    IF p = "raise" THEN << Line("Error getting DOM tree", 0, 0) >> ELSE <<>>

\* the calls to the provider if a failed call were tried once more
FetchCalls_Retry(p) ==
    IF p = "raise"
    THEN << "dom_service.get_dom_tree", "dom_service.get_dom_tree" >>
    ELSE << "dom_service.get_dom_tree" >>

\* the calls get_current_dom_tree makes to the provider
FetchCalls(p) == << "dom_service.get_dom_tree" >>

\* get_current_dom_tree() on a visualizer whose fields are session and
\* service, the provider's call ending as p
get_current_dom_tree(session, service, p) ==
    LET init == IF IsNone(service)
                THEN initialize(session, service, None)
                ELSE [outcome |-> "return", exc |-> "", browser_session |-> session,
                      dom_service |-> service]
        initCalls == IF IsNone(service) THEN << "initialize" >> ELSE <<>>
    IN  IF init.outcome = "raise"
        THEN [outcome |-> "raise", exc |-> init.exc, value |-> None, stdout |-> <<>>,
              calls |-> initCalls, dom_service |-> init.dom_service, fetched |-> ""]
        ELSE [outcome |-> "return", exc |-> "", value |-> FetchedValue(p),
              stdout |-> FetchedOutput(p), calls |-> initCalls \o FetchCalls(p),
              dom_service |-> init.dom_service, fetched |-> p]

\* --------------------------------------------------- print_dom_after_task
\* sorted(items, key=count, reverse=True): a stable sort, largest count first
RECURSIVE InsertByCount(_, _)
InsertByCount(sorted, item) ==
    IF sorted = <<>> THEN << item >>
    ELSE IF Head(sorted)[2] >= item[2]
         THEN << Head(sorted) >> \o InsertByCount(Tail(sorted), item)
         ELSE << item >> \o sorted

RECURSIVE SortByCount(_)
SortByCount(items) ==
    IF items = <<>> THEN <<>>
    ELSE InsertByCount(SortByCount(SubSeq(items, 1, Len(items) - 1)), items[Len(items)])

\* the lines for entry number i + 1 of the interactive elements section
InteractiveEntry(t, i, elem) ==
    LET text_content == _get_element_text(t, elem)
    IN  IF AttributesAbsent(t, elem) THEN << Line(AttributeError, 0, elem) >> ELSE
        << [Line("entry", 0, elem) EXCEPT
              !.nums = << i + 1 >>,
              !.str = Lower(node_name(t, elem)),
              !.attrs = FilterAttrs(attributes(t, elem), ReportAttributeKeys),
              !.idx = element_index(t, elem)] >>
        \o (IF text_content # <<>>
            THEN << [Line("Text", 4, elem) EXCEPT
                       !.text = Take(text_content, TextPreviewLimit)] >>
            ELSE <<>>)
        \o (IF ~IsNone(absolute_position(t, elem))
            THEN << [Line("Position", 4, elem) EXCEPT !.pos = absolute_position(t, elem)] >>
            ELSE <<>>)
        \o (IF ~IsNone(snapshot_node(t, elem)) /\ snapshot_node(t, elem)[1].is_clickable
            THEN << [Line("Clickable", 4, elem) EXCEPT !.str = "True"] >>
            ELSE <<>>)

\* the elements shown if the slice were left out
ShownElements_Unlimited(interactive_elements) == interactive_elements

\* interactive_elements[:20]
ShownElements(interactive_elements) == Take(interactive_elements, InteractiveLimit)

\* if len(interactive_elements) > 20: "... and N more interactive elements"
RemainderLines(interactive_elements) ==
    IF Len(interactive_elements) > InteractiveLimit
    THEN << [Line("more interactive elements", 0, 0) EXCEPT
               !.nums = << Len(interactive_elements) - InteractiveLimit >>] >>
    ELSE <<>>

RECURSIVE InteractiveEntries(_, _, _)
InteractiveEntries(t, shown, i) ==
    Concat([k \in 1..(Len(shown) - i) |-> InteractiveEntry(t, i + k - 1, shown[i + k])])

\* the interactive elements section of the report
InteractiveSection(t, root) ==
    LET interactive_elements == _get_interactive_elements(t, root)
    IN  IF interactive_elements # <<>>
        THEN InteractiveEntries(t, ShownElements(interactive_elements), 0)
             \o RemainderLines(interactive_elements)
        ELSE << Line("No interactive elements found", 0, 0) >>

\* the lines print_dom_after_task logs for a DOM it got
ReportBody(t, root, max_depth) ==
    LET summary == summarize_dom_tree(t, root)
        element_types == SortByCount(_get_element_type_distribution(t, root))
        display_depth == Min(max_depth, DisplayDepthCap)
        output_lines == print_dom_tree(t, root, 0, display_depth, FALSE)
    IN  << Line("=", 0, 0), Line("DOM TREE AFTER TASK COMPLETION", 0, 0), Line("=", 0, 0),
           [Line("Summary", 0, 0) EXCEPT
              !.nums = << summary.total_nodes, summary.interactive_elements >>],
           [Line("Depth", 0, 0) EXCEPT
              !.nums = << summary.depth, summary.visible_elements, summary.links,
                          summary.buttons, summary.form_elements >>],
           Line("Element types breakdown:", 0, 0) >>
        \o [k \in 1..Len(element_types) |->
              [Line("-", 2, 0) EXCEPT !.str = element_types[k][1],
                                      !.nums = << element_types[k][2] >>]]
        \o << Line("-", 0, 0), Line("DOM TREE STRUCTURE:", 0, 0) >>
        \o (IF Raised(output_lines) THEN << Line(AttributeError, 0, 0) >>
            ELSE output_lines)
        \o << Line("-", 0, 0), Line("INTERACTIVE ELEMENTS DETAILS:", 0, 0) >>
        \o InteractiveSection(t, root)
        \o << Line("=", 0, 0) >>

\* the routines print_dom_after_task calls for a DOM it got, body being the
\* lines of its report: none after the call that raised
ReportCalls(body) ==
    LET logged == UpToRaise(body)
    IN  << "summarize_dom_tree", "_get_element_type_distribution", "print_dom_tree" >>
        \o (IF \E k \in 1..Len(logged) : logged[k].kind = "INTERACTIVE ELEMENTS DETAILS:"
            THEN << "_get_interactive_elements" >>
                 \o SelectSeq([k \in 1..Len(logged) |->
                                 IF logged[k].kind = "entry" THEN "_get_element_text"
                                 ELSE ""],
                              LAMBDA c : c # "")
            ELSE <<>>)

\* the result for a DOM it got, body being the lines of its report: what
\* was logged before an exception, and the exception
ReportResult(got, body) ==
    [outcome |-> IF Raised(body) THEN "raise" ELSE "return",
     exc |-> IF Raised(body) THEN AttributeError ELSE "",
     stdout |-> got.stdout,
     log |-> UpToRaise(body),
     calls |-> << "get_current_dom_tree" >> \o got.calls \o ReportCalls(body),
     dom_service |-> got.dom_service, fetched |-> got.fetched]

\* the result for an absent root if the banner were logged before the test
NoTreeResult_BannerFirst(got) ==
    [outcome |-> "return", exc |-> "",
     stdout |-> got.stdout \o << Line("No DOM tree available", 0, 0) >>,
     log |-> << Line("=", 0, 0), Line("DOM TREE AFTER TASK COMPLETION", 0, 0),
                Line("=", 0, 0) >>,
     calls |-> << "get_current_dom_tree" >> \o got.calls,
     dom_service |-> got.dom_service, fetched |-> got.fetched]

\* if not dom_tree: print("No DOM tree available"); return
NoTreeResult(got) ==
    [outcome |-> "return", exc |-> "",
     stdout |-> got.stdout \o << Line("No DOM tree available", 0, 0) >>,
     log |-> <<>>,
     calls |-> << "get_current_dom_tree" >> \o got.calls,
     dom_service |-> got.dom_service, fetched |-> got.fetched]

\* print_dom_after_task(max_depth, include_details), the provider's call
\* ending as p
print_dom_after_task(t, session, service, max_depth, include_details, p) ==
    LET got == get_current_dom_tree(session, service, p)
    IN  IF got.outcome = "raise"
        THEN [outcome |-> "raise", exc |-> got.exc, stdout |-> got.stdout, log |-> <<>>,
              calls |-> << "get_current_dom_tree" >> \o got.calls,
              dom_service |-> got.dom_service, fetched |-> got.fetched]
        ELSE IF IsNone(got.value)
        THEN NoTreeResult(got)
        ELSE CHOOSE r \in { ReportResult(got, body) :
                               body \in { ReportBody(t, got.value[1], max_depth) } } : TRUE

\* ---------------------------------------------------------------- actions
Idle == Outcome("idle", "return", None)

Init ==
    /\ dom \in PageDoms
    /\ browser_session \in {None, Session}
    /\ dom_service = None
    /\ stdout = <<>>
    /\ log = <<>>
    /\ ret = Idle
    /\ calls = <<>>
    /\ last_summary = None

\* await visualizer.initialize(bs)
Initialize(bs) ==
    LET r == initialize(browser_session, dom_service, bs)
    IN  /\ ret.op = "idle"
        /\ browser_session' = r.browser_session
        /\ dom_service' = r.dom_service
        /\ ret' = Outcome("initialize", r.outcome, r.exc)
        /\ stdout' = <<>>
        /\ log' = <<>>
        /\ calls' = <<>>
        /\ UNCHANGED <<dom, last_summary>>

\* await visualizer.get_current_dom_tree()
GetCurrentDomTree(p) ==
    LET r == get_current_dom_tree(browser_session, dom_service, p)
    IN  /\ ret.op = "idle"
        /\ dom_service' = r.dom_service
        /\ ret' = [Outcome("get_current_dom_tree", r.outcome,
                           IF r.outcome = "raise" THEN r.exc ELSE r.value) EXCEPT
                     !.fetched = r.fetched]
        /\ stdout' = r.stdout
        /\ log' = <<>>
        /\ calls' = r.calls
        /\ UNCHANGED <<dom, browser_session, last_summary>>

\* What a call of a synchronous routine on root ends with.  Each routine
\* reads node.node_type of the node it is given (print_dom_tree after its
\* depth test, which a call at depth 0 passes): on None that raises
\* AttributeError.  A list with an exception in it is the exception.
CallOn(root, result) ==
    IF IsNone(root) THEN [outcome |-> "raise", value |-> AttributeError]
    ELSE [outcome |-> "return", value |-> result]

ListResult(root, lines) ==
    IF IsNone(root) \/ ~Raised(lines) THEN CallOn(root, lines)
    ELSE [outcome |-> "raise", value |-> AttributeError]

\* the position of the node an argument refers to, 0 for None
NodeOf(root) == IF IsNone(root) THEN 0 ELSE root[1]

\* a call of a routine that took the children off the list of the root
\* as it walked them
Ends_Consuming(op, root, max_depth, include_details, result) ==
    /\ ret.op = "idle"
    /\ ret' = [Outcome(op, result.outcome, result.value) EXCEPT
                 !.node = NodeOf(root), !.max_depth = max_depth,
                 !.include_details = include_details]
    /\ stdout' = <<>>
    /\ log' = <<>>
    /\ calls' = <<>>
    /\ dom' = [dom EXCEPT ![1].children_nodes = <<>>]
    /\ UNCHANGED <<browser_session, dom_service, last_summary>>

\* a call of one of the synchronous routines and how it ended
Ends(op, root, max_depth, include_details, result) ==
    /\ ret.op = "idle"
    /\ ret' = [Outcome(op, result.outcome, result.value) EXCEPT
                 !.node = NodeOf(root), !.max_depth = max_depth,
                 !.include_details = include_details]
    /\ stdout' = <<>>
    /\ log' = <<>>
    /\ calls' = <<>>
    /\ UNCHANGED <<dom, browser_session, dom_service, last_summary>>

\* the arguments a caller passes for a root: the root of the DOM, or None
Roots == {Some(1), None}

\* visualizer.print_dom_tree(root, max_depth=max_depth, include_details=...)
PrintDomTree(root, max_depth, include_details) ==
    Ends("print_dom_tree", root, max_depth, include_details,
         ListResult(root, print_dom_tree(dom, NodeOf(root), 0, max_depth, include_details)))

\* summarize_dom_tree if the counters were kept on the visualizer and a
\* call went on from those of the call before
SummarizeDomTree_Accumulating(root) ==
    Ends("summarize_dom_tree", root, 0, FALSE,
         CallOn(root, summarize_traverse(dom, NodeOf(root), 0,
                                         IF IsNone(last_summary) THEN EmptySummary
                                         ELSE last_summary[1])))

\* visualizer.summarize_dom_tree(root)
SummarizeDomTree(root) ==
    Ends("summarize_dom_tree", root, 0, FALSE,
         CallOn(root, summarize_dom_tree(dom, NodeOf(root))))

\* visualizer._get_element_type_distribution(root)
GetElementTypeDistribution(root) ==
    Ends("_get_element_type_distribution", root, 0, FALSE,
         CallOn(root, _get_element_type_distribution(dom, NodeOf(root))))

\* visualizer._get_interactive_elements(root)
GetInteractiveElements(root) ==
    Ends("_get_interactive_elements", root, 0, FALSE,
         CallOn(root, _get_interactive_elements(dom, NodeOf(root))))

\* visualizer._get_element_text(node)
GetElementText(node) ==
    Ends("_get_element_text", node, 0, FALSE,
         CallOn(node, _get_element_text(dom, NodeOf(node))))

\* await visualizer.print_dom_after_task(max_depth, include_details)
PrintDomAfterTask(max_depth, include_details, p) ==
    LET r == print_dom_after_task(dom, browser_session, dom_service, max_depth,
                                  include_details, p)
    IN  /\ ret.op = "idle"
        /\ dom_service' = r.dom_service
        /\ ret' = [Outcome("print_dom_after_task", r.outcome, r.exc) EXCEPT
                     !.max_depth = max_depth, !.include_details = include_details,
                     !.fetched = r.fetched]
        /\ stdout' = r.stdout
        /\ log' = r.log
        /\ calls' = r.calls
        /\ UNCHANGED <<dom, browser_session, last_summary>>

\* the max_depth of visualize_dom_after_task's call
VisualizeMaxDepth == 5

\* await visualize_dom_after_task(browser_session): a new visualizer on the
\* session, then print_dom_after_task(max_depth=5, include_details=True)
VisualizeDomAfterTask(bs, p) ==
    LET r == print_dom_after_task(dom, bs, None, VisualizeMaxDepth, TRUE, p)
    IN  /\ ret.op = "idle"
        /\ browser_session' = bs
        /\ dom_service' = r.dom_service
        /\ ret' = [Outcome("visualize_dom_after_task", r.outcome, r.exc) EXCEPT
                     !.max_depth = VisualizeMaxDepth, !.include_details = TRUE,
                     !.fetched = r.fetched]
        /\ stdout' = r.stdout
        /\ log' = r.log
        /\ calls' = r.calls
        /\ UNCHANGED <<dom, last_summary>>

\* the caller is done with the result of the call it made and goes on
Continue ==
    /\ ret.op # "idle"
    /\ ret' = Idle
    /\ stdout' = <<>>
    /\ log' = <<>>
    /\ calls' = <<>>
    /\ UNCHANGED <<dom, browser_session, dom_service, last_summary>>

\* summary = visualizer.summarize_dom_tree(root): the caller keeps the
\* summary the call returned and goes on
KeepSummary ==
    /\ ret.op = "summarize_dom_tree"
    /\ ret.outcome = "return"
    /\ last_summary' = Some(ret.value)
    /\ ret' = Idle
    /\ stdout' = <<>>
    /\ log' = <<>>
    /\ calls' = <<>>
    /\ UNCHANGED <<dom, browser_session, dom_service>>

Next ==
    \/ \E bs \in {None, Session} : Initialize(bs)
    \/ \E p \in ProviderOutcomes : GetCurrentDomTree(p)
    \/ \E d \in 0..MaxDepthArg, details \in BOOLEAN : PrintDomTree(Some(1), d, details)
    \/ PrintDomTree(None, MaxDepthArg, FALSE)
    \/ \E root \in Roots : SummarizeDomTree(root)
    \/ \E root \in Roots : GetElementTypeDistribution(root)
    \/ \E root \in Roots : GetInteractiveElements(root)
    \/ \E node \in {None} \cup { Some(n) : n \in 1..Len(dom) } : GetElementText(node)
    \/ \E d \in 0..MaxDepthArg, p \in ProviderOutcomes : PrintDomAfterTask(d, TRUE, p)
    \/ \E bs \in {None, Session}, p \in ProviderOutcomes : VisualizeDomAfterTask(bs, p)
    \/ Continue

Spec == Init /\ [][Next]_vars

\* The synchronous analysis routines alone, applied to every DOM of Doms by
\* a visualizer built on a session.
InitAnalysis ==
    /\ dom \in Doms
    /\ browser_session = Session
    /\ dom_service = None
    /\ stdout = <<>>
    /\ log = <<>>
    /\ ret = Idle
    /\ calls = <<>>
    /\ last_summary = None

NextAnalysis ==
    \/ \E d \in 0..MaxDepthArg, details \in BOOLEAN : PrintDomTree(Some(1), d, details)
    \/ PrintDomTree(None, MaxDepthArg, FALSE)
    \/ \E root \in Roots : SummarizeDomTree(root)
    \/ \E root \in Roots : GetElementTypeDistribution(root)
    \/ \E root \in Roots : GetInteractiveElements(root)
    \/ \E node \in {None} \cup { Some(n) : n \in 1..Len(dom) } : GetElementText(node)
    \/ KeepSummary
    \/ Continue

SpecAnalysis == InitAnalysis /\ [][NextAnalysis]_vars

\* print_dom_tree alone, applied to the root of every node graph of Graphs.
InitCyclic ==
    /\ dom \in Graphs
    /\ browser_session = Session
    /\ dom_service = None
    /\ stdout = <<>>
    /\ log = <<>>
    /\ ret = Idle
    /\ calls = <<>>
    /\ last_summary = None

NextCyclic ==
    \/ \E d \in 0..MaxDepthArg, details \in BOOLEAN : PrintDomTree(Some(1), d, details)
    \/ Continue

SpecCyclic == InitCyclic /\ [][NextCyclic]_vars

\* ------------------------------------------------- the DOM seen from outside
\* Definitions of the claims below, made without the traversals of the code.

\* the nodes reachable from the nodes of S by children_nodes,
\* content_document and shadow_roots edges
RECURSIVE ReachClosure(_, _)
ReachClosure(t, S) ==
    LET S2 == S \cup UNION { Range(Subtrees(t, i)) : i \in S }
    IN  IF S2 = S THEN S ELSE ReachClosure(t, S2)

Reachable(t, root) == ReachClosure(t, {root})

\* the nodes above node j
RECURSIVE Ancestors(_, _)
Ancestors(t, j) ==
    IF j = 1 THEN {} ELSE {HostOf(t, j)[1]} \cup Ancestors(t, HostOf(t, j)[1])

\* depth of a node: 0 for the root, one more across every edge
LogicalDepth(t, j) == Cardinality(Ancestors(t, j))

TreeDepth(t) == CHOOSE d \in 0..Len(t) :
                    /\ \E j \in 1..Len(t) : LogicalDepth(t, j) = d
                    /\ \A j \in 1..Len(t) : LogicalDepth(t, j) <= d

\* depth of a node as print_dom_tree counts it on the way down from the root
RECURSIVE RenderDepth(_, _)
RenderDepth(t, j) ==
    IF j = 1 THEN 0
    ELSE LET h == HostOf(t, j)
         IN  CASE h[2] = "children_nodes" -> ChildDepth(RenderDepth(t, h[1]))
               [] h[2] = "content_document" -> ContentDocumentDepth(RenderDepth(t, h[1]))
               [] OTHER -> ShadowRootDepth(RenderDepth(t, h[1]))

\* the nodes below n in pre-order: a node, then its children in order, then
\* its content document, then its shadow roots in order
RECURSIVE PreOrder(_, _)
RECURSIVE PreOrderEach(_, _)
PreOrder(t, n) == << n >> \o PreOrderEach(t, Subtrees(t, n))
PreOrderEach(t, nodes) == Concat([k \in 1..Len(nodes) |-> PreOrder(t, nodes[k])])

IsNonBlankText(t, n) == node_type(t, n) = TEXT_NODE /\ strip(node_value(t, n)) # <<>>
IsIndexedElement(t, n) ==
    node_type(t, n) = ELEMENT_NODE /\ ~IsNone(element_index(t, n))
IsLink(t, n) == node_type(t, n) = ELEMENT_NODE /\ Lower(node_name(t, n)) = "a"

LinesOfKind(lines, kinds) == { i \in 1..Len(lines) : lines[i].kind \in kinds }

\* the caller holds what a call of routine op returned
Returned(op) == ret.op = op /\ ret.outcome = "return"

\* ---------------------------------------------------------------------- C1
\* C1: summarize_dom_tree(root)['total_nodes'] equals the number of distinct
\* nodes reachable from the root by children, content_document and
\* shadow_roots edges, whatever the types of the nodes.
C1_TotalNodesCountsReachable ==
    Returned("summarize_dom_tree") =>
        ret.value.total_nodes = Cardinality(Reachable(dom, ret.node))

\* ---------------------------------------------------------------------- C2
\* C2: in print_dom_tree a node that is neither an element nor a text node
\* emits no line but its children are still walked: every element and every
\* non-blank text node that lies below such a node, within the depth limit,
\* has its line in the output.
C2_ChildrenOfSkippedNodesWalked ==
    Returned("print_dom_tree") =>
        \A n \in Reachable(dom, ret.node) :
            ( /\ node_type(dom, n) = ELEMENT_NODE \/ IsNonBlankText(dom, n)
              /\ RenderDepth(dom, n) <= ret.max_depth
              /\ \E a \in Ancestors(dom, n) : node_type(dom, a) = DOCUMENT_NODE )
            => \E i \in LinesOfKind(ret.value, {"open", "#TEXT"}) : ret.value[i].node = n

\* ---------------------------------------------------------------------- C3
\* the points where print_dom_tree cut the descent off: the subtrees of an
\* element that got its open line which lie deeper than max_depth
TruncationPoints(t, out, max_depth) ==
    { j \in 2..Len(t) :
        /\ \E i \in LinesOfKind(out, {"open"}) : out[i].node = HostOf(t, j)[1]
        /\ RenderDepth(t, j) > max_depth }

\* C3: print_dom_tree with max_depth = k emits no element line and no text
\* line for a node deeper than k, and exactly one '... (max depth reached)'
\* line for each point where the descent was cut off, and no other.
C3_DepthLimit ==
    Returned("print_dom_tree") =>
        LET out == ret.value
            cut == TruncationPoints(dom, out, ret.max_depth)
            placeholders == LinesOfKind(out, {"max depth reached"})
        IN  /\ \A i \in LinesOfKind(out, {"open", "#TEXT"}) :
                   LogicalDepth(dom, out[i].node) <= ret.max_depth
            /\ \A j \in cut : Cardinality({ i \in placeholders : out[i].node = j }) = 1
            /\ \A i \in placeholders : out[i].node \in cut

C3_Witness ==
    /\ Returned("print_dom_tree")
    /\ ret.max_depth < TreeDepth(dom)
    /\ Cardinality(LinesOfKind(ret.value, {"max depth reached"})) >= 2
    /\ \E n \in Reachable(dom, 1) :
           /\ LogicalDepth(dom, n) > ret.max_depth
           /\ node_type(dom, n) = ELEMENT_NODE

\* ---------------------------------------------------------------------- C4
\* C4: the list _get_interactive_elements(root) returns is as long as
\* summarize_dom_tree(root)['interactive_elements'] on the same DOM.
C4_CatalogLengthIsSummaryCount ==
    /\ Returned("_get_interactive_elements") =>
           Len(ret.value) = summarize_dom_tree(dom, ret.node).interactive_elements
    /\ Returned("summarize_dom_tree") =>
           ret.value.interactive_elements = Len(_get_interactive_elements(dom, ret.node))

C4_Witness ==
    /\ Returned("_get_interactive_elements")
    /\ Len(ret.value) >= 2
    /\ \E n \in Reachable(dom, 1) :
           node_type(dom, n) = ELEMENT_NODE /\ IsNone(element_index(dom, n))
    /\ \E n \in Reachable(dom, 1) : node_type(dom, n) = TEXT_NODE

\* ---------------------------------------------------------------------- C5
\* C5: _get_interactive_elements returns exactly the element nodes of the
\* DOM whose element_index is present, each once, in pre-order (a node, its
\* children in order, its content document, its shadow roots in order),
\* whatever the values of element_index.
C5_CatalogIsIndexedElementsInPreOrder ==
    Returned("_get_interactive_elements") =>
        ret.value = SelectSeq(PreOrder(dom, ret.node), LAMBDA n : IsIndexedElement(dom, n))

\* ---------------------------------------------------------------------- C6
\* a DOM as a browser has it: the root is an element, and a document node
\* is the root of a content document or of a shadow root
ElementRootedDom(t) ==
    /\ node_type(t, 1) = ELEMENT_NODE
    /\ \A j \in 2..Len(t) :
           node_type(t, j) = DOCUMENT_NODE => HostOf(t, j)[2] # "children_nodes"

\* C6: when an element has a content document (or a shadow root) whose tree
\* holds <a> elements, summarize_dom_tree's 'links' for the outer DOM counts
\* them: every <a> element reachable from the root is counted exactly once.
C6_LinksCountNestedDocuments ==
    (Returned("summarize_dom_tree") /\ ElementRootedDom(dom)) =>
        ret.value.links = Cardinality({ n \in Reachable(dom, ret.node) : IsLink(dom, n) })

\* ---------------------------------------------------------------------- C7
\* the nodes reachable from n through children edges of element nodes only
RECURSIVE ChildClosure(_, _)
ChildClosure(t, S) ==
    LET S2 == S \cup UNION { Range(children_nodes(t, i)) :
                              i \in { k \in S : node_type(t, k) = ELEMENT_NODE } }
    IN  IF S2 = S THEN S ELSE ChildClosure(t, S2)

ScopedTextNodes(t, n) ==
    SelectSeq(PreOrder(t, n),
              LAMBDA m : m \in ChildClosure(t, {n}) /\ IsNonBlankText(t, m))

\* the trimmed values of the nodes, with one space between two of them
RECURSIVE SpacedValues(_, _)
SpacedValues(t, nodes) ==
    IF nodes = <<>> THEN <<>>
    ELSE IF Len(nodes) = 1 THEN strip(node_value(t, nodes[1]))
    ELSE SpacedValues(t, SubSeq(nodes, 1, Len(nodes) - 1))
         \o << " " >> \o strip(node_value(t, nodes[Len(nodes)]))

\* C7: _get_element_text(node) is the trimmed values of exactly the
\* non-blank text nodes reachable from node through children edges of
\* element nodes, in pre-order, joined by single spaces; text inside a
\* content document or a shadow root never appears in it.
C7_ScopedText ==
    Returned("_get_element_text") =>
        ret.value = SpacedValues(dom, ScopedTextNodes(dom, ret.node))

C7_Witness ==
    /\ Returned("_get_element_text")
    /\ Len(ScopedTextNodes(dom, ret.node)) >= 2
    /\ \E m \in Reachable(dom, ret.node) \ ChildClosure(dom, {ret.node}) :
           IsNonBlankText(dom, m)

\* ---------------------------------------------------------------------- C8
\* the last operation built a report from a DOM it got
ReportMade ==
    /\ ret.op \in {"print_dom_after_task", "visualize_dom_after_task"}
    /\ ret.outcome = "return"
    /\ ret.fetched = "tree"

TraversalRoutines ==
    {"print_dom_tree", "summarize_dom_tree", "_get_element_type_distribution",
     "_get_interactive_elements", "_get_element_text"}

\* C9: when the provider returns no root, print_dom_after_task prints only
\* 'No DOM tree available', logs no part of the report, calls none of the
\* traversal routines and returns without raising.
C9_AbsentRootGivesNoTreeResult ==
    ( /\ ret.op \in {"print_dom_after_task", "visualize_dom_after_task"}
      /\ ret.fetched = "absent" )
    => /\ ret.outcome = "return"
       /\ stdout = << Line("No DOM tree available", 0, 0) >>
       /\ log = <<>>
       /\ Range(calls) \cap TraversalRoutines = {}

C9_Witness ==
    /\ ret.op = "print_dom_after_task"
    /\ ret.fetched = "absent"
    /\ ret.outcome = "return"

\* --------------------------------------------------------------------- C10
ProviderCalls == Cardinality(LinesOfKind([k \in 1..Len(calls) |-> [kind |-> calls[k]]],
                                         {"dom_service.get_dom_tree"}))

\* C10 as claimed: when the provider raises, what the caller of
\* get_current_dom_tree or print_dom_after_task receives (a returned value or
\* an exception) differs from what it receives for an absent root, where
\* both return None; and the provider is not called again.
C10_ProviderFailureIsDistinct ==
    ( /\ ret.op \in {"get_current_dom_tree", "print_dom_after_task",
                     "visualize_dom_after_task"}
      /\ ret.fetched = "raise" )
    => /\ ret.outcome # "return"
       /\ ProviderCalls = 1

\* C10 as the code has it: when the provider raises, get_current_dom_tree
\* prints 'Error getting DOM tree' and returns None, as it does for an
\* absent root; print_dom_after_task then prints 'No DOM tree available',
\* logs nothing and returns; the provider was called exactly once.
C10_ProviderFailureReturnsNone ==
    ret.fetched = "raise" =>
        /\ ret.outcome = "return"
        /\ ProviderCalls = 1
        /\ ret.op = "get_current_dom_tree" =>
               /\ IsNone(ret.value)
               /\ stdout = << Line("Error getting DOM tree", 0, 0) >>
        /\ ret.op \in {"print_dom_after_task", "visualize_dom_after_task"} =>
               /\ stdout = << Line("Error getting DOM tree", 0, 0),
                              Line("No DOM tree available", 0, 0) >>
               /\ log = <<>>
               /\ Range(calls) \cap TraversalRoutines = {}

C10_Witness ==
    /\ ret.op = "get_current_dom_tree"
    /\ ret.fetched = "raise"
    /\ stdout # <<>>

\* --------------------------------------------------------------------- C11
\* some node of the DOM lacks an optional field, its attribute mapping
\* included
SomeFieldAbsent(t) ==
    \E n \in 1..Len(t) :
        /\ node_type(t, n) = ELEMENT_NODE
        /\ \/ AttributesAbsent(t, n)
           \/ IsNone(absolute_position(t, n))
           \/ IsNone(ax_node(t, n))
           \/ IsNone(snapshot_node(t, n))

\* C11: on a DOM some of whose nodes lack an optional field (attributes,
\* absolute_position, ax_node, snapshot_node), print_dom_tree on the root and
\* the report of print_dom_after_task run to completion without raising,
\* and print_dom_tree still emits the line of every element and non-blank
\* text node that lies within the depth limit below elements only.
C11_AbsentOptionalFieldsTolerated ==
    SomeFieldAbsent(dom) =>
        /\ (ret.op = "print_dom_tree" /\ ret.node # 0) =>
               /\ ret.outcome = "return"
               /\ \A n \in Reachable(dom, ret.node) :
                      ( /\ node_type(dom, n) = ELEMENT_NODE \/ IsNonBlankText(dom, n)
                        /\ RenderDepth(dom, n) <= ret.max_depth
                        /\ \A a \in Ancestors(dom, n) : node_type(dom, a) = ELEMENT_NODE )
                      => \E i \in LinesOfKind(ret.value, {"open", "#TEXT"}) :
                             ret.value[i].node = n
        /\ ( /\ ret.op \in {"print_dom_after_task", "visualize_dom_after_task"}
             /\ ret.fetched = "tree" )
           => ret.outcome = "return"

\* the same for the fields the code tests before it reads them
C11_GuardedFieldsTolerated ==
    (SomeFieldAbsent(dom) /\ \A n \in 1..Len(dom) : ~AttributesAbsent(dom, n))
    => C11_AbsentOptionalFieldsTolerated

\* --------------------------------------------------------------------- C12
\* what a routine that visited no node would report
EmptyResultOf(op) ==
    IF op = "summarize_dom_tree" THEN EmptySummary ELSE <<>>

\* C12: a traversal routine (print_dom_tree, summarize_dom_tree,
\* _get_element_type_distribution, _get_interactive_elements,
\* _get_element_text) that is given None for its root returns, without
\* raising, the result of zero visits: no line, counters all 0, no element
\* type, no element, no text.
C12_AbsentRootGivesEmptyResult ==
    (ret.op \in TraversalRoutines /\ ret.node = 0) =>
        /\ ret.outcome = "return"
        /\ ret.value = EmptyResultOf(ret.op)

RECURSIVE ElementClosure(_, _)
ElementClosure(t, S) ==
    LET S2 == S \cup UNION { Range(Subtrees(t, i)) :
                              i \in { k \in S : node_type(t, k) = ELEMENT_NODE } }
    IN  IF S2 = S THEN S ELSE ElementClosure(t, S2)

\* C14: 'depth' of summarize_dom_tree(root) is the greatest depth of a node
\* the summarizer visited, the root being at depth 0 and every children,
\* content_document or shadow_roots edge adding 1; for a DOM of a single
\* node it returns depth = 0 and total_nodes = 1.
C14_DepthIsDeepestVisit ==
    Returned("summarize_dom_tree") =>
        LET visited == ElementClosure(dom, {ret.node})
        IN  /\ \E n \in visited : LogicalDepth(dom, n) = ret.value.depth
            /\ \A n \in visited : LogicalDepth(dom, n) <= ret.value.depth
            /\ Len(dom) = 1 => ret.value.depth = 0 /\ ret.value.total_nodes = 1

\* the deepest visit lies at depth 2 or more, below a content_document or
\* shadow_roots edge
C14_Witness ==
    /\ Returned("summarize_dom_tree")
    /\ ret.value.depth > 1
    /\ \E n \in ElementClosure(dom, {1}) :
           /\ LogicalDepth(dom, n) = ret.value.depth
           /\ HostOf(dom, n)[2] # "children_nodes"

\* --------------------------------------------------------------------- C15
\* C15: the depth at which print_dom_tree processes a node is the depth
\* summarize_dom_tree gives it, 0 for the root and one more across every
\* children, content_document and shadow_roots edge: the line of a node is
\* indented by two spaces per level of that depth, and the depth limit cuts
\* off only nodes for which that depth is greater than max_depth.
C15_RenderDepthIsLogicalDepth ==
    Returned("print_dom_tree") =>
        \A i \in LinesOfKind(ret.value, {"open", "close", "#TEXT", "max depth reached"}) :
            /\ ret.value[i].indent = 2 * LogicalDepth(dom, ret.value[i].node)
            /\ ret.value[i].kind = "max depth reached" =>
                   LogicalDepth(dom, ret.value[i].node) > ret.max_depth

\* --------------------------------------------------------------------- C16
\* the keys print_dom_tree shows, in the order the claim gives them
TreeKeyOrder == << "id", "class", "role", "type", "name" >>

\* the items of a mapping for the keys of `order`, in that order
RECURSIVE ItemsInKeyOrder(_, _)
ItemsInKeyOrder(items, order) ==
    IF order = <<>> THEN <<>>
    ELSE SelectSeq(items, LAMBDA kv : kv[1] = Head(order))
         \o ItemsInKeyOrder(items, Tail(order))

\* C16: the open line of an element lists exactly the attributes of the
\* node whose key is one of id, class, role, type, name, in that fixed key
\* order whatever the order of the attribute mapping (so that equal
\* mappings built in different orders give the same line).
C16_AttributesInFixedKeyOrder ==
    Returned("print_dom_tree") =>
        \A i \in LinesOfKind(ret.value, {"open"}) :
            ret.value[i].attrs =
                ItemsInKeyOrder(attributes(dom, ret.value[i].node), TreeKeyOrder)

\* --------------------------------------------------------------------- C17
\* the positions of the lines of `out` that were emitted for a node of S
LinesFor(out, S) == { i \in 1..Len(out) : out[i].node \in S }

\* every position of A lies before every position of B
Before(A, B) == \A a \in A, b \in B : a < b

\* the positions of `marks` in increasing order
RECURSIVE Ascending(_)
Ascending(marks) ==
    IF marks = {} THEN <<>>
    ELSE LET least == CHOOSE m \in marks : \A x \in marks : m <= x
         IN  << least >> \o Ascending(marks \ {least})

\* C17: in the output of print_dom_tree every element that got an open line
\* gets exactly one close line, after the open line and after all the lines
\* of the nodes below it, which come in this order: the children's, then
\* the '[iframe content]:' marker and the content document's, then for each
\* shadow root its '[shadow-root]:' marker and its lines; the lines between
\* an open line and its close line are those of the element and of the
\* nodes below it, so that open and close lines nest; a close line has an
\* open line; and a node that got the placeholder line has no other line,
\* nor has any node below it.
C17_OpenCloseNested ==
    Returned("print_dom_tree") =>
        LET out == ret.value
            Below(n) == ReachClosure(dom, Range(Subtrees(dom, n)))
            OpenAt(n) == { i \in LinesOfKind(out, {"open"}) : out[i].node = n }
            CloseAt(n) == { i \in LinesOfKind(out, {"close"}) : out[i].node = n }
            IframeMarks(n) ==
                { i \in LinesOfKind(out, {"[iframe content]:"}) : out[i].node = n }
            ShadowMarks(n) ==
                { i \in LinesOfKind(out, {"[shadow-root]:"}) : out[i].node = n }
            Under(nodes) == LinesFor(out, ReachClosure(dom, nodes))
        IN  /\ \A n \in 1..Len(dom) :
                   /\ Cardinality(OpenAt(n)) <= 1
                   /\ Cardinality(CloseAt(n)) = Cardinality(OpenAt(n))
                   /\ OpenAt(n) # {} =>
                          LET kids == Under(Range(children_nodes(dom, n)))
                              doc == Under(Range(content_document(dom, n)))
                              marks == Ascending(ShadowMarks(n))
                          IN  /\ Before(OpenAt(n), CloseAt(n))
                              /\ Before(OpenAt(n), LinesFor(out, Below(n)))
                              /\ Before(LinesFor(out, Below(n)), CloseAt(n))
                              /\ \A i \in OpenAt(n), j \in CloseAt(n) :
                                     /\ out[i].str = out[j].str
                                     /\ out[i].indent = out[j].indent
                                     /\ \A k \in (i + 1)..(j - 1) :
                                            out[k].node \in {n} \cup Below(n)
                              /\ Cardinality(IframeMarks(n)) = Len(content_document(dom, n))
                              /\ Before(kids, IframeMarks(n))
                              /\ Before(IframeMarks(n), doc)
                              /\ Before(kids \cup IframeMarks(n) \cup doc, ShadowMarks(n))
                              /\ Len(marks) = Len(shadow_roots(dom, n))
                              /\ \A r \in 1..Len(marks) :
                                     LET sect == Under({shadow_roots(dom, n)[r]})
                                     IN  /\ Before({marks[r]}, sect)
                                         /\ r < Len(marks) => Before(sect, {marks[r + 1]})
                                         /\ Before(sect, CloseAt(n))
            /\ \A p \in LinesOfKind(out, {"max depth reached"}) :
                   LinesFor(out, {out[p].node} \cup Below(out[p].node)) = {p}

\* an element with children, a content document and a shadow root was
\* rendered with all three sections, and some node got the placeholder
C17_Witness ==
    /\ Returned("print_dom_tree")
    /\ \E i \in LinesOfKind(ret.value, {"open"}) :
           LET n == ret.value[i].node
           IN  /\ children_nodes(dom, n) # <<>>
               /\ content_document(dom, n) # <<>>
               /\ shadow_roots(dom, n) # <<>>
    /\ Cardinality(LinesOfKind(ret.value, {"open"})) > 1
    /\ LinesOfKind(ret.value, {"max depth reached"}) # {}

\* --------------------------------------------------------------------- C18
\* C18: no operation changes the DOM it analyses: after print_dom_tree,
\* summarize_dom_tree, _get_element_type_distribution,
\* _get_interactive_elements, _get_element_text or print_dom_after_task
\* every node, child list, content_document and shadow_roots entry of the
\* DOM is as it was before the call.
C18_DomUnchanged == [][dom' = dom]_vars

\* the report was made of a DOM with children, a content document, a
\* shadow root and attribute mappings
C18_Witness ==
    /\ ret.op = "print_dom_after_task"
    /\ ret.outcome = "return"
    /\ ret.fetched = "tree"
    /\ dom = FramedDom
    /\ log # <<>>

\* --------------------------------------------------------------------- C19
\* some node of the graph is reachable from itself
HasCycle(t) ==
    \E n \in 1..Len(t) : n \in ReachClosure(t, Range(Subtrees(t, n)))

\* the greatest number of edges that leave one node
OutDegree(t) ==
    CHOOSE b \in 0..(Len(t) + 2) :
        /\ \A n \in 1..Len(t) : Len(Subtrees(t, n)) <= b
        /\ \E n \in 1..Len(t) : Len(Subtrees(t, n)) = b

\* the number of nodes of a tree of the given height in which every node
\* has b subtrees
RECURSIVE FullTreeSize(_, _)
FullTreeSize(b, height) ==
    IF height = 0 THEN 1 ELSE 1 + b * FullTreeSize(b, height - 1)

\* the detail lines of the nodes 1..n together
RECURSIVE AllDetails(_, _)
AllDetails(t, n) ==
    IF n = 0 THEN <<>> ELSE AllDetails(t, n - 1) \o _print_element_details(t, n, 0)

\* C19: on every finite node graph, one with a node reachable from itself
\* included, print_dom_tree with max_depth = k returns: no call is made at
\* a depth greater than k + 2 (no line is indented deeper), a call at a
\* depth greater than k appends the placeholder line and nothing else, and
\* the output is no longer than what the calls of a descent k + 1 levels
\* deep can append (per call an open and a close line, the detail lines and
\* one marker per edge).
C19_CyclicGraphsTerminate ==
    Returned("print_dom_tree") =>
        LET out == ret.value
            b == OutDegree(dom)
            perCall == 2 + Len(AllDetails(dom, Len(dom))) + b
        IN  /\ \A i \in 1..Len(out) :
                   /\ out[i].indent <= 2 * (ret.max_depth + 2)
                   /\ out[i].indent > 2 * ret.max_depth + 2 =>
                          out[i].kind = "max depth reached"
                   /\ out[i].kind \in {"open", "close", "#TEXT"} =>
                          out[i].indent <= 2 * ret.max_depth
            /\ Len(out) <= perCall * FullTreeSize(b, ret.max_depth + 1)

\* a graph with a cycle was rendered and the descent went round the cycle
\* until a call at depth max_depth + 2 cut it off
C19_Witness ==
    /\ Returned("print_dom_tree")
    /\ HasCycle(dom)
    /\ \E i \in LinesOfKind(ret.value, {"max depth reached"}) :
           ret.value[i].indent = 2 * (ret.max_depth + 2)
    /\ \E n \in 1..Len(dom) :
           Cardinality({ i \in LinesOfKind(ret.value, {"open"}) :
                           ret.value[i].node = n }) > 1
====
